---- MODULE Spec2Model ----
(***************************************************************************)
(* MOU generator (mouapp.py, app.py): placeholder substitution, exception  *)
(* collection and the Calibri-11 / bold enforcement over a .docx document, *)
(* for the single-document job and for the CSV batch.                      *)
(*                                                                         *)
(* A text is a sequence of one-character strings.  A run is a record       *)
(* [text, bold, font, size]; bold is "True", "False" or "None" (python-    *)
(* docx's tri-state), font is a family name or "None", size is in points   *)
(* with 0 for None.  A paragraph is the sequence of its runs.  A document  *)
(* is a record of the four regions the walker visits.                      *)
(***************************************************************************)
EXTENDS Integers, Sequences, FiniteSets, TLC

-----------------------------------------------------------------------------
(* Characters: str.lower / str.upper / \s / [A-Z0-9_] on the letters used. *)

UpperLetters == <<"A", "B", "C", "D", "E", "F", "G", "H", "I", "J", "K", "L", "M", "N", "O",
    "P", "Q", "R", "S", "T", "U", "V", "W", "X", "Y", "Z", "Ç", "Õ">>

LowerLetters == <<"a", "b", "c", "d", "e", "f", "g", "h", "i", "j", "k", "l", "m", "n", "o",
    "p", "q", "r", "s", "t", "u", "v", "w", "x", "y", "z", "ç", "õ">>

Digits == <<"0", "1", "2", "3", "4", "5", "6", "7", "8", "9">>

Range(s) == {s[k] : k \in 1..Len(s)}

IndexOf(s, c) == CHOOSE k \in 1..Len(s) : s[k] = c

\* str.lower as a table over the upper-case letters
LowerOf == [c \in Range(UpperLetters) |-> LowerLetters[IndexOf(UpperLetters, c)]]

\* str.lower on one character
Lower(c) == IF c \in DOMAIN LowerOf THEN LowerOf[c] ELSE c

\* str.upper as a table over the lower-case letters
UpperOf == [c \in Range(LowerLetters) |-> UpperLetters[IndexOf(LowerLetters, c)]]

\* str.upper on one character
Upper(c) == IF c \in DOMAIN UpperOf THEN UpperOf[c] ELSE c

LowerStr(t) == [k \in 1..Len(t) |-> Lower(t[k])]

UpperStr(t) == [k \in 1..Len(t) |-> Upper(t[k])]

\* the characters \s matches and str.strip() removes
SpaceChars == {" ", "\t", "\n", "\r", "\f"}

IsSpace(c) == c \in SpaceChars

\* the characters [A-Z0-9_] matches under re.IGNORECASE
IsKeyChar(c) == \/ c \in Range(SubSeq(UpperLetters, 1, 26))
                \/ c \in Range(SubSeq(LowerLetters, 1, 26))
                \/ c \in Range(Digits)
                \/ c = "_"

-----------------------------------------------------------------------------
(* Text helpers. *)

RECURSIVE LStripSet(_, _)
LStripSet(t, cs) == IF t # <<>> /\ Head(t) \in cs THEN LStripSet(Tail(t), cs) ELSE t

RECURSIVE RStripSet(_, _)
RStripSet(t, cs) ==
    IF t # <<>> /\ t[Len(t)] \in cs THEN RStripSet(SubSeq(t, 1, Len(t) - 1), cs) ELSE t

\* str.strip()
Strip(t) == RStripSet(LStripSet(t, SpaceChars), SpaceChars)

\* str.strip(chars)
StripChars(t, cs) == RStripSet(LStripSet(t, cs), cs)

\* re.sub(r"\s+", " ", txt)
RECURSIVE CollapseWs(_)
CollapseWs(t) ==
    IF t = <<>> THEN <<>>
    ELSE IF IsSpace(Head(t)) THEN <<" ">> \o CollapseWs(LStripSet(Tail(t), SpaceChars))
    ELSE <<Head(t)>> \o CollapseWs(Tail(t))

\* pat in t
Contains(t, pat) ==
    \E k \in 1..(Len(t) - Len(pat) + 1) : SubSeq(t, k, k + Len(pat) - 1) = pat

\* "".join(run.text for run in p.runs)
RECURSIVE JoinRuns(_)
JoinRuns(runs) == IF runs = <<>> THEN <<>> ELSE Head(runs).text \o JoinRuns(Tail(runs))

\* _para_text: the runs' text joined, whitespace collapsed and stripped
\* (all the text of a paragraph is in its runs, so the "or p.text" arm gives the same text)
ParaText(p) == Strip(CollapseWs(JoinRuns(p)))

-----------------------------------------------------------------------------
(* Literals of _is_exception_phrase and of the marked-token test. *)

\* como parte integrante deste documento
PT_ANCHOR_1 == <<"c", "o", "m", "o", " ", "p", "a", "r", "t", "e", " ", "i", "n", "t", "e",
    "g", "r", "a", "n", "t", "e", " ", "d", "e", "s", "t", "e", " ", "d", "o", "c", "u", "m",
    "e", "n", "t", "o">>
\* continuidade do processo
PT_ANCHOR_2 == <<"c", "o", "n", "t", "i", "n", "u", "i", "d", "a", "d", "e", " ", "d", "o",
    " ", "p", "r", "o", "c", "e", "s", "s", "o">>
\* as an integral part of this document
EN_ANCHOR_1 == <<"a", "s", " ", "a", "n", " ", "i", "n", "t", "e", "g", "r", "a", "l", " ",
    "p", "a", "r", "t", " ", "o", "f", " ", "t", "h", "i", "s", " ", "d", "o", "c", "u", "m",
    "e", "n", "t">>
\* continuity of the nomination process
EN_ANCHOR_2 == <<"c", "o", "n", "t", "i", "n", "u", "i", "t", "y", " ", "o", "f", " ", "t",
    "h", "e", " ", "n", "o", "m", "i", "n", "a", "t", "i", "o", "n", " ", "p", "r", "o", "c",
    "e", "s", "s">>
\* business plan apresentado
BP_APRESENTADO == <<"b", "u", "s", "i", "n", "e", "s", "s", " ", "p", "l", "a", "n", " ", "a",
    "p", "r", "e", "s", "e", "n", "t", "a", "d", "o">>
\* validado
W_VALIDADO == <<"v", "a", "l", "i", "d", "a", "d", "o">>
\* apresentado
W_APRESENTADO == <<"a", "p", "r", "e", "s", "e", "n", "t", "a", "d", "o">>
\* business plan
BUSINESS_PLAN == <<"b", "u", "s", "i", "n", "e", "s", "s", " ", "p", "l", "a", "n">>
\* validated
W_VALIDATED == <<"v", "a", "l", "i", "d", "a", "t", "e", "d">>
\* approved
W_APPROVED == <<"a", "p", "p", "r", "o", "v", "e", "d">>
\* especifica
W_ESPECIFICA == <<"e", "s", "p", "e", "c", "i", "f", "i", "c", "a">>
\* acordadas
W_ACORDADAS == <<"a", "c", "o", "r", "d", "a", "d", "a", "s">>
\* alterações
W_ALTERACOES_CEDILHA == <<"a", "l", "t", "e", "r", "a", "ç", "õ", "e", "s">>
\* alteracoes
W_ALTERACOES == <<"a", "l", "t", "e", "r", "a", "c", "o", "e", "s">>
\* specification
W_SPECIFICATION == <<"s", "p", "e", "c", "i", "f", "i", "c", "a", "t", "i", "o", "n">>
\* specifications
W_SPECIFICATIONS == <<"s", "p", "e", "c", "i", "f", "i", "c", "a", "t", "i", "o", "n", "s">>
\* agreed
W_AGREED == <<"a", "g", "r", "e", "e", "d">>
\* amendment
W_AMENDMENT == <<"a", "m", "e", "n", "d", "m", "e", "n", "t">>
\* changes
W_CHANGES == <<"c", "h", "a", "n", "g", "e", "s">>
\* modifications
W_MODIFICATIONS == <<"m", "o", "d", "i", "f", "i", "c", "a", "t", "i", "o", "n", "s">>
\* {{bp_date}}
TOK_BP_DATE_LOW == <<"{", "{", "b", "p", "_", "d", "a", "t", "e", "}", "}">>
\* {{comments}}
TOK_COMMENTS_LOW == <<"{", "{", "c", "o", "m", "m", "e", "n", "t", "s", "}", "}">>
\* 2.
TWO_DOT == <<"2", ".">>
\* 2
TWO == <<"2">>

\* the pattern written as r"n/a": no optional spaces, no optional period
NaFullMatchExact(t) == t = <<"n", "/", "a">>

\* re.fullmatch(r"\s*n\s*/?\s*a\s*\.?\s*", text_low): the classes \s, n, /, a and \. are
\* disjoint, so the greedy left-to-right reading decides the match
NaFullMatch(t) ==
    LET t1 == LStripSet(t, SpaceChars)
        t2 == IF t1 # <<>> /\ Head(t1) = "n" THEN LStripSet(Tail(t1), SpaceChars) ELSE <<"!">>
        t3 == IF t2 # <<>> /\ Head(t2) = "/" THEN LStripSet(Tail(t2), SpaceChars) ELSE t2
        t4 == IF t3 # <<>> /\ Head(t3) = "a" THEN LStripSet(Tail(t3), SpaceChars) ELSE <<"!">>
        t5 == IF t4 # <<>> /\ Head(t4) = "." THEN LStripSet(Tail(t4), SpaceChars) ELSE t4
    IN  t5 = <<>>

\* _is_exception_phrase with "and" for "or" between the words of the Portuguese heading
IsExceptionPhraseAllWords(text_low) ==
    LET pt_match == /\ Contains(text_low, W_ESPECIFICA)
                    /\ Contains(text_low, W_ACORDADAS)
                    /\ Contains(text_low, W_ALTERACOES_CEDILHA)
                    /\ Contains(text_low, W_ALTERACOES)
        en_match == /\ \/ Contains(text_low, W_SPECIFICATION)
                       \/ Contains(text_low, W_SPECIFICATIONS)
                    /\ \/ Contains(text_low, W_AGREED)
                       \/ Contains(text_low, W_APPROVED)
                    /\ \/ Contains(text_low, W_AMENDMENT)
                       \/ Contains(text_low, W_CHANGES)
                       \/ Contains(text_low, W_MODIFICATIONS)
    IN  \/ Contains(text_low, PT_ANCHOR_1) /\ Contains(text_low, PT_ANCHOR_2)
        \/ Contains(text_low, EN_ANCHOR_1) /\ Contains(text_low, EN_ANCHOR_2)
        \/ /\ Contains(text_low, BP_APRESENTADO)
           /\ (Contains(text_low, W_VALIDADO) \/ Contains(text_low, W_APRESENTADO))
        \/ /\ Contains(text_low, BUSINESS_PLAN)
           /\ (Contains(text_low, W_VALIDATED) \/ Contains(text_low, W_APPROVED))
        \/ pt_match
        \/ en_match
        \/ NaFullMatch(text_low)

\* _is_exception_phrase(text_low)
IsExceptionPhrase(text_low) ==
    LET pt_match == /\ Contains(text_low, W_ESPECIFICA)
                    /\ \/ Contains(text_low, W_ACORDADAS)
                       \/ Contains(text_low, W_ALTERACOES_CEDILHA)
                       \/ Contains(text_low, W_ALTERACOES)
        en_match == /\ \/ Contains(text_low, W_SPECIFICATION)
                       \/ Contains(text_low, W_SPECIFICATIONS)
                    /\ \/ Contains(text_low, W_AGREED)
                       \/ Contains(text_low, W_APPROVED)
                    /\ \/ Contains(text_low, W_AMENDMENT)
                       \/ Contains(text_low, W_CHANGES)
                       \/ Contains(text_low, W_MODIFICATIONS)
    IN  \/ Contains(text_low, PT_ANCHOR_1) /\ Contains(text_low, PT_ANCHOR_2)
        \/ Contains(text_low, EN_ANCHOR_1) /\ Contains(text_low, EN_ANCHOR_2)
        \/ /\ Contains(text_low, BP_APRESENTADO)
           /\ (Contains(text_low, W_VALIDADO) \/ Contains(text_low, W_APRESENTADO))
        \/ /\ Contains(text_low, BUSINESS_PLAN)
           /\ (Contains(text_low, W_VALIDATED) \/ Contains(text_low, W_APPROVED))
        \/ pt_match
        \/ en_match
        \/ NaFullMatch(text_low)

-----------------------------------------------------------------------------
(* JobConfig.upcase_keys.  A dict is the sequence of its items [k, v] in   *)
(* insertion order, keys distinct.                                         *)

DictKeys(d) == {d[j].k : j \in 1..Len(d)}

\* d[k] = v: an existing key keeps its position, a new key goes last
DictSet(d, k, v) ==
    IF k \in DictKeys(d)
    THEN [j \in 1..Len(d) |-> IF d[j].k = k THEN [k |-> k, v |-> v] ELSE d[j]]
    ELSE Append(d, [k |-> k, v |-> v])

\* d.get(k, default)
DictGet(d, k, default) ==
    IF k \in DictKeys(d) THEN d[CHOOSE j \in 1..Len(d) : d[j].k = k].v ELSE default

\* the key normalised without .upper()
NormKeyNoUpper(k) == StripChars(Strip(k), {"{", "}", " "})

\* kk = k.strip().strip("{} ").upper()
NormKey(k) == UpperStr(StripChars(Strip(k), {"{", "}", " "}))

RECURSIVE UpcaseLoop(_, _)
UpcaseLoop(v, fixed) ==
    IF v = <<>> THEN fixed
    ELSE UpcaseLoop(Tail(v), DictSet(fixed, NormKey(Head(v).k), Head(v).v))

\* JobConfig.upcase_keys(v): no item is rejected, the validator always returns
upcase_keys(v) == UpcaseLoop(v, <<>>)

-----------------------------------------------------------------------------
(* re.sub with a replacement string: the template escapes, then the        *)
(* left-to-right non-overlapping case-insensitive replacement.             *)

OctDigits == <<"0", "1", "2", "3", "4", "5", "6", "7">>

OctVal(c) == IndexOf(OctDigits, c) - 1

IsAsciiLetter(c) == c \in Range(SubSeq(UpperLetters, 1, 26)) \cup Range(SubSeq(LowerLetters, 1, 26))

\* chr(code) for the code points the model's alphabet names; any other is one opaque character
Chr(code) ==
    CASE code = 9 -> "\t"
      [] code = 10 -> "\n"
      [] code = 32 -> " "
      [] code = 46 -> "."
      [] code = 47 -> "/"
      [] code = 92 -> "\\"
      [] code = 95 -> "_"
      [] code = 123 -> "{"
      [] code = 125 -> "}"
      [] code \in 48..57 -> Digits[code - 47]
      [] code \in 65..90 -> UpperLetters[code - 64]
      [] code \in 97..122 -> LowerLetters[code - 96]
      [] OTHER -> "<chr>"

\* the escapes the template turns into one character
EscapeChar(c) ==
    CASE c = "n" -> "\n"
      [] c = "t" -> "\t"
      [] c = "r" -> "\r"
      [] c = "f" -> "\f"
      [] c = "\\" -> "\\"
      [] c = "a" -> "<BEL>"
      [] c = "b" -> "<BS>"
      [] c = "v" -> "<VT>"

IsEscape(c) == c \in {"n", "t", "r", "f", "\\", "a", "b", "v"}

\* length of the \g<0...0> group reference at the head of v (v starts with \g), 0 if none
GroupZeroLen(v) ==
    IF Len(v) >= 5 /\ v[3] = "<" /\ \E e \in 5..Len(v) :
            v[e] = ">" /\ \A j \in 4..(e - 1) : v[j] = "0"
    THEN CHOOSE e \in 5..Len(v) : v[e] = ">" /\ \A j \in 4..(e - 1) : v[j] = "0"
    ELSE 0

IsOct3(v) ==
    /\ Len(v) >= 4
    /\ v[2] \in Range(SubSeq(OctDigits, 1, 4))
    /\ v[3] \in Range(OctDigits)
    /\ v[4] \in Range(OctDigits)

\* number of octal digits of the \0, \0d, \0dd escape at the head of v
OctZeroLen(v) ==
    IF Len(v) >= 3 /\ v[3] \in Range(OctDigits)
    THEN IF Len(v) >= 4 /\ v[4] \in Range(OctDigits) THEN 3 ELSE 2
    ELSE 1

RECURSIVE OctCode(_)
OctCode(ds) == IF ds = <<>> THEN 0 ELSE OctCode(SubSeq(ds, 1, Len(ds) - 1)) * 8 + OctVal(ds[Len(ds)])

\* the replacement template does not compile: re.error (the pattern has no groups)
RECURSIVE BadRepl(_)
BadRepl(v) ==
    IF v = <<>> THEN FALSE
    ELSE IF Head(v) # "\\" THEN BadRepl(Tail(v))
    ELSE IF Len(v) = 1 THEN TRUE
    ELSE IF v[2] = "g"
         THEN GroupZeroLen(v) = 0 \/ BadRepl(SubSeq(v, GroupZeroLen(v) + 1, Len(v)))
    ELSE IF v[2] = "0" THEN BadRepl(SubSeq(v, OctZeroLen(v) + 2, Len(v)))
    ELSE IF v[2] \in Range(Digits)
         THEN IF IsOct3(v) THEN BadRepl(SubSeq(v, 5, Len(v))) ELSE TRUE
    ELSE IF IsEscape(v[2]) THEN BadRepl(SubSeq(v, 3, Len(v)))
    ELSE IF IsAsciiLetter(v[2]) THEN TRUE
    ELSE BadRepl(SubSeq(v, 3, Len(v)))

\* the text a compiled template v gives for the match m
RECURSIVE ExpandRepl(_, _)
ExpandRepl(v, m) ==
    IF v = <<>> THEN <<>>
    ELSE IF Head(v) # "\\" THEN <<Head(v)>> \o ExpandRepl(Tail(v), m)
    ELSE IF v[2] = "g" THEN m \o ExpandRepl(SubSeq(v, GroupZeroLen(v) + 1, Len(v)), m)
    ELSE IF v[2] = "0"
         THEN <<Chr(OctCode(SubSeq(v, 2, OctZeroLen(v) + 1)))>>
              \o ExpandRepl(SubSeq(v, OctZeroLen(v) + 2, Len(v)), m)
    ELSE IF v[2] \in Range(Digits)
         THEN <<Chr(OctCode(SubSeq(v, 2, 4)))>> \o ExpandRepl(SubSeq(v, 5, Len(v)), m)
    ELSE IF IsEscape(v[2]) THEN <<EscapeChar(v[2])>> \o ExpandRepl(SubSeq(v, 3, Len(v)), m)
    ELSE <<"\\", v[2]>> \o ExpandRepl(SubSeq(v, 3, Len(v)), m)

\* the pattern compiled without re.IGNORECASE
MatchesAtCaseSensitive(k, t) == Len(t) >= Len(k) /\ SubSeq(t, 1, Len(k)) = k

\* the compiled pattern re.escape(k) with re.IGNORECASE matches at the head of t
MatchesAt(k, t) == Len(t) >= Len(k) /\ LowerStr(SubSeq(t, 1, Len(k))) = LowerStr(k)

\* re.compile(re.escape(k), re.IGNORECASE).sub(v, t), k not empty, v a template that compiles
RECURSIVE ReSub(_, _, _)
ReSub(k, v, t) ==
    IF t = <<>> THEN <<>>
    ELSE IF MatchesAt(k, t)
         THEN ExpandRepl(v, SubSeq(t, 1, Len(k))) \o ReSub(k, v, SubSeq(t, Len(k) + 1, Len(t)))
    ELSE <<Head(t)>> \o ReSub(k, v, Tail(t))

\* normalized = {f"{{{{{k}}}}}": str(v) for k, v in mapping.items()}
Normalized(m) ==
    [j \in 1..Len(m) |-> [k |-> <<"{", "{">> \o m[j].k \o <<"}", "}">>, v |-> m[j].v]]

\* for k, v in normalized.items(): replaced = re.compile(...).sub(v, replaced)
RECURSIVE ReplaceLoop(_, _)
ReplaceLoop(norm, replaced) ==
    IF norm = <<>> THEN replaced
    ELSE ReplaceLoop(Tail(norm), ReSub(Head(norm).k, Head(norm).v, replaced))

\* the first sub() of a paragraph's loop that raises re.error, if any does
SubRaises(norm) == \E j \in 1..Len(norm) : BadRepl(norm[j].v)

-----------------------------------------------------------------------------
(* Documents, paragraphs and runs (python-docx). *)

\* _iter_all_paragraphs(doc): body, then table cells, then headers, then footers
IterAllParagraphs(d) == d.body \o d.tables \o d.headers \o d.footers

\* the paragraph at position j of the walk, mutated in place
SetPara(d, j, p) ==
    LET nb == Len(d.body)
        nt == Len(d.tables)
        nh == Len(d.headers)
    IN  IF j <= nb THEN [d EXCEPT !.body[j] = p]
        ELSE IF j <= nb + nt THEN [d EXCEPT !.tables[j - nb] = p]
        ELSE IF j <= nb + nt + nh THEN [d EXCEPT !.headers[j - nb - nt] = p]
        ELSE [d EXCEPT !.footers[j - nb - nt - nh] = p]

EmptyDoc == [body |-> <<>>, tables |-> <<>>, headers |-> <<>>, footers |-> <<>>]

\* p.add_run(text): a new run with no formatting of its own
AddRun(text) == [text |-> text, bold |-> "None", font |-> "None", size |-> 0]

\* "{{bp_date}}" in low or "{{comments}}" in low
IsMarked(low) == Contains(low, TOK_BP_DATE_LOW) \/ Contains(low, TOK_COMMENTS_LOW)

\* the loop body with "replaced = low" for "replaced = orig"
ReplaceInParaLowered(p, m) ==
    LET orig == ParaText(p)
        replaced == ReplaceLoop(Normalized(m), LowerStr(orig))
    IN  IF replaced # orig THEN <<AddRun(replaced)>> ELSE p

\* the body of the loop of replace_placeholders_and_collect_exceptions for one paragraph:
\* the paragraph as the loop leaves it
ReplaceInPara(p, m) ==
    LET orig == ParaText(p)
        replaced == ReplaceLoop(Normalized(m), orig)
    IN  IF replaced # orig THEN <<AddRun(replaced)>> ELSE p

\* the first pass with "run.bold = not run.bold"
SetCalibri11BoldToggle(run) ==
    [run EXCEPT !.font = "Calibri", !.size = 11,
                !.bold = IF run.bold = "True" THEN "False" ELSE "True"]

\* run.font.name = "Calibri"; run.font.size = Pt(11); run.bold = True
SetCalibri11Bold(run) == [run EXCEPT !.font = "Calibri", !.size = 11, !.bold = "True"]

\* unbold(p) with "for run in p.runs[:1]"
unboldFirstRun(p) == [j \in 1..Len(p) |-> IF j = 1 THEN [p[j] EXCEPT !.bold = "False"] ELSE p[j]]

\* unbold(p)
unbold(p) == [j \in 1..Len(p) |-> [p[j] EXCEPT !.bold = "False"]]

\* p in exceptions: Paragraph defines neither __eq__ nor __hash__, so the set holds object
\* identities; id is the identity of the proxy object the walk yielded for p
InExceptions(id, exc) == id \in exc

\* the second loop without the phrase test and the "2." branch
UnboldAtExceptionsOnly(d, j, base, exc) ==
    IF InExceptions(base + j, exc)
    THEN SetPara(d, j, unbold(IterAllParagraphs(d)[j]))
    ELSE d

\* the body of the second loop of enforce_calibri11_and_bold_with_exceptions for all_paras[j]
UnboldAt(d, j, base, exc) ==
    LET all_paras == IterAllParagraphs(d)
        p == all_paras[j]
        text_low == LowerStr(ParaText(p))
    IN  IF InExceptions(base + j, exc) \/ IsExceptionPhrase(text_low)
        THEN SetPara(d, j, unbold(p))
        ELSE IF text_low \in {TWO_DOT, TWO}
        THEN LET d1 == SetPara(d, j, unbold(p))
             IN  IF j + 1 <= Len(all_paras)
                    /\ IsExceptionPhrase(LowerStr(ParaText(all_paras[j + 1])))
                 THEN SetPara(d1, j + 1, unbold(all_paras[j + 1]))
                 ELSE d1
        ELSE d

\* the body of the second loop calls unbold (on all_paras[j], which has a run to write)
UnboldCalled(d, j, base, exc) ==
    LET p == IterAllParagraphs(d)[j]
        text_low == LowerStr(ParaText(p))
    IN  /\ Len(p) > 0
        /\ \/ InExceptions(base + j, exc)
           \/ IsExceptionPhrase(text_low)
           \/ text_low \in {TWO_DOT, TWO}

-----------------------------------------------------------------------------
(* extract_placeholders and the sorted list the form and the batch use. *)

\* PLACEHOLDER_RE.finditer(text): the keys of the tokens {{KEY}} of text, upper-cased
KeysIn(t) ==
    {UpperStr(SubSeq(t, a + 2, b - 1)) : <<a, b>> \in
        {ab \in (1..Len(t)) \X (1..Len(t)) :
            /\ ab[2] >= ab[1] + 3
            /\ ab[2] + 1 <= Len(t)
            /\ t[ab[1]] = "{" /\ t[ab[1] + 1] = "{"
            /\ t[ab[2]] = "}" /\ t[ab[2] + 1] = "}"
            /\ \A c \in (ab[1] + 2)..(ab[2] - 1) : IsKeyChar(t[c])}}

\* extract_placeholders(doc)
extract_placeholders(d) ==
    UNION {KeysIn(ParaText(IterAllParagraphs(d)[j])) : j \in 1..Len(IterAllParagraphs(d))}

\* code point order of the characters of an upper-cased key
KeyCharOrder == Digits \o SubSeq(UpperLetters, 1, 26) \o <<"_">>

RECURSIVE StrLess(_, _)
StrLess(a, b) ==
    IF a = <<>> THEN b # <<>>
    ELSE IF b = <<>> THEN FALSE
    ELSE IF Head(a) = Head(b) THEN StrLess(Tail(a), Tail(b))
    ELSE IndexOf(KeyCharOrder, Head(a)) < IndexOf(KeyCharOrder, Head(b))

\* sorted(list(keys))
RECURSIVE Sorted(_)
Sorted(keys) ==
    IF keys = {} THEN <<>>
    ELSE LET least == CHOOSE a \in keys : \A b \in keys \ {a} : StrLess(a, b)
         IN  <<least>> \o Sorted(keys \ {least})

-----------------------------------------------------------------------------
(* State. *)

VARIABLES
    pc,          \* position in the handler
    tmpl,        \* the parsed template (template_bytes)
    rawMapping,  \* the dict the form hands to JobConfig(placeholders=...)
    mapping,     \* the mapping the job substitutes with
    doc,         \* the job's Document
    i,           \* index of the running loop over the paragraphs
    exceptions,  \* identities of the Paragraph objects collected by the substitution pass
    proxies,     \* number of Paragraph proxy objects created so far (identities 1..proxies)
    walkBase,    \* the running walk's paragraph j is the proxy object walkBase + j
    out,         \* the saved documents (out_bytes)
    pdf,         \* outcome of try_export_pdf
    enforceRuns, \* number of completed calls of the formatting pass on doc
    once,        \* doc as the first call of the formatting pass left it
    boldWrites,  \* the writes of run.bold by the running call of the formatting pass
    rows,        \* the rows of the CSV (df.iterrows())
    row,         \* index of the row being processed
    zip,         \* names written to the ZIP archive
    results,     \* app.py: the results list
    variant      \* which script runs the batch: "mouapp" or "app"

vars == <<pc, tmpl, rawMapping, mapping, doc, i, exceptions, proxies, walkBase, out, pdf,
          enforceRuns, once, boldWrites, rows, row, zip, results, variant>>

batchVars == <<rows, row, zip, results, variant>>

-----------------------------------------------------------------------------
(* Inputs: the texts the initial states are built from. *)

KEY_A == <<"A">>

KEY_B == <<"B">>

KEY_COMMENTS == <<"C", "O", "M", "M", "E", "N", "T", "S">>

KEY_CNPJ == <<"C", "N", "P", "J">>

KEY_BP_DATE == <<"B", "P", "_", "D", "A", "T", "E">>

KEY_GROUP_NAME == <<"G", "R", "O", "U", "P", "_", "N", "A", "M", "E">>

T_OPEN == <<"{", "{">>

T_CLOSE == <<"}", "}">>

T_TOK_A_LOW == <<"{", "{", "a", "}", "}">>

T_TOK_C_SPACED == <<"\t", " ", "{", "{", "C", "}", "}", " ">>

V_EMPTY == <<>>

V_B == <<"B">>

V_TOK_B == <<"{", "{", "B", "}", "}">>

V_BAD_ESCAPE == <<"\\", "d">>

V_PENDING_REVIEW == <<"P", "e", "n", "d", "i", "n", "g", " ", "r", "e", "v", "i", "e", "w">>

V_CNPJ == <<"1", "2", ".", "3", "4", "5">>

V_NA == <<"N", "/", "A">>

V_DATE == <<"2", "0", "2", "4">>

P_TWO_DOT_DIGIT == <<"2">>

P_TWO_DOT_DOT == <<".">>

P_HEADING == <<"E", "s", "p", "e", "c", "i", "f", "i", "c", "a", "ç", "õ", "e", "s", " ", "e",
    " ", "a", "l", "t", "e", "r", "a", "ç", "õ", "e", "s", " ", "a", "c", "o", "r", "d", "a",
    "d", "a", "s", ":">>

P_TWO_HEADING == <<"2", ".", " ", "E", "s", "p", "e", "c", "i", "f", "i", "c", "a", "ç", "õ",
    "e", "s", " ", "e", " ", "a", "l", "t", "e", "r", "a", "ç", "õ", "e", "s", " ", "a", "c",
    "o", "r", "d", "a", "d", "a", "s", ":">>

P_TWO_PRAZOS == <<"2", ".", " ", "P", "r", "a", "z", "o", "s">>

P_NA_UPPER == <<"N", "/", "A">>

P_NA_DOT == <<"n", "/", "a", ".">>

P_NA_SPACED == <<"N", " ", "/", " ", "A">>

P_NOT_APPLICABLE == <<"N", "o", "t", " ", "a", "p", "p", "l", "i", "c", "a", "b", "l", "e">>

P_TOK_COMMENTS == <<"{", "{", "C", "O", "M", "M", "E", "N", "T", "S", "}", "}">>

P_TOK_CNPJ == <<"{", "{", "C", "N", "P", "J", "}", "}">>

P_BP_LINE == <<"B", "u", "s", "i", "n", "e", "s", "s", " ", "P", "l", "a", "n", ":", " ", "{",
    "{", "b", "p", "_", "d", "a", "t", "e", "}", "}">>

RK_ONE_BRACE == <<"{", "G", "R", "O", "U", "P", "_", "N", "A", "M", "E", "}">>

RK_LOWER == <<"g", "r", "o", "u", "p", "_", "n", "a", "m", "e">>

RK_SPACED == <<" ", "G", "R", "O", "U", "P", "_", "N", "A", "M", "E", " ">>

RK_TWO_BRACES == <<"{", "{", "G", "R", "O", "U", "P", "_", "N", "A", "M", "E", "}", "}">>

RK_BLANK == <<"{", "{", " ", "}", "}">>

RK_TABBED == <<"{", "\t", "g", "r", "o", "u", "p", "_", "n", "a", "m", "e", "\t", "}">>

P_TOK_GROUP_NAME == <<"{", "{", "G", "r", "o", "u", "p", "_", "N", "a", "m", "e", "}", "}">>

P_TOK_EMPTY == <<"{", "{", "}", "}">>

V_ACME == <<"A", "c", "m", "e">>

V_ZETA == <<"Z", "e", "t", "a">>

MaxRuns == 3

MaxParas == 2

MaxEnforceRuns == 2

MaxRows == 2

Run(text, bold, font, size) == [text |-> text, bold |-> bold, font |-> font, size |-> size]

\* runs a template paragraph is assembled from: a token may straddle runs
SubstRuns == {
    Run(T_OPEN, "None", "None", 0),
    Run(T_CLOSE, "True", "Arial", 12),
    Run(KEY_A, "False", "Arial", 0),
    Run(T_TOK_A_LOW, "None", "Calibri", 11),
    Run(T_TOK_C_SPACED, "True", "None", 10)}

SubstParas == UNION {[1..n -> SubstRuns] : n \in 0..MaxRuns}

SubstDocs == {[EmptyDoc EXCEPT !.body = <<p>>] : p \in SubstParas}

SubstEntries == {[k |-> k, v |-> v] : k \in {KEY_A, KEY_B}, v \in {V_EMPTY, V_B, V_TOK_B, V_BAD_ESCAPE}}

\* the dicts over a set of items: at most two items, keys distinct, either order
DictsOver(entries) ==
    {<<>>} \cup {<<e>> : e \in entries}
           \cup {<<e1, e2>> : <<e1, e2>> \in {ee \in entries \X entries : ee[1].k # ee[2].k}}

\* template paragraphs of the formatting rules
FormatParas == {
    <<Run(P_TWO_DOT_DIGIT, "True", "Arial", 12), Run(P_TWO_DOT_DOT, "None", "None", 0)>>,
    <<Run(P_HEADING, "True", "Arial", 12)>>,
    <<Run(P_TWO_HEADING, "None", "None", 0)>>,
    <<Run(P_TWO_PRAZOS, "False", "Calibri", 11)>>,
    <<Run(P_NA_UPPER, "True", "None", 0)>>,
    <<Run(P_NA_DOT, "None", "Arial", 0)>>,
    <<Run(P_NA_SPACED, "True", "Calibri", 11)>>,
    <<Run(P_NOT_APPLICABLE, "False", "None", 0)>>,
    <<Run(P_TOK_COMMENTS, "True", "None", 0)>>,
    <<Run(T_OPEN, "None", "None", 0), Run(KEY_CNPJ, "True", "Arial", 0), Run(T_CLOSE, "False", "None", 12)>>,
    <<Run(P_BP_LINE, "None", "None", 0)>>}

FormatSeqs == UNION {[1..n -> FormatParas] : n \in 1..MaxParas}

\* the last paragraph of the walk sits in the body, in a table cell, in a header or a footer
Layouts(ps) ==
    LET front == SubSeq(ps, 1, Len(ps) - 1)
        last == <<ps[Len(ps)]>>
    IN  {[EmptyDoc EXCEPT !.body = ps],
         [EmptyDoc EXCEPT !.body = front, !.tables = last],
         [EmptyDoc EXCEPT !.body = front, !.headers = last],
         [EmptyDoc EXCEPT !.body = front, !.footers = last]}

FormatDocs == UNION {Layouts(ps) : ps \in FormatSeqs}

FormatMappings == {
    <<[k |-> KEY_BP_DATE, v |-> V_DATE], [k |-> KEY_CNPJ, v |-> V_CNPJ],
      [k |-> KEY_COMMENTS, v |-> V_PENDING_REVIEW]>>,
    <<[k |-> KEY_CNPJ, v |-> V_NA], [k |-> KEY_COMMENTS, v |-> V_NA]>>}

\* keys as a caller may write them, and a template that uses them
NormEntries == {[k |-> k, v |-> v] :
    k \in {RK_ONE_BRACE, RK_LOWER, RK_SPACED, RK_TWO_BRACES, KEY_GROUP_NAME, RK_BLANK,
          RK_TABBED},
    v \in {V_ACME, V_ZETA}}

NormDocs == {
    [EmptyDoc EXCEPT !.body = <<<<Run(P_TOK_GROUP_NAME, "None", "None", 0)>>>>],
    [EmptyDoc EXCEPT !.body = <<<<Run(P_TOK_GROUP_NAME, "None", "None", 0)>>,
                                 <<Run(P_TOK_EMPTY, "True", "Arial", 12)>>>>]}

-----------------------------------------------------------------------------
(* The single-document job (mouapp.py, "if submitted:"). *)

\* the record of the bold writes of one call after "run.bold = True" (pass 1)
WriteTrue(w) == IF w \in {"False", "TrueAfterFalse"} THEN "TrueAfterFalse" ELSE "True"

\* the record of the bold writes of one call after "run.bold = False" (unbold)
WriteFalse(w) == IF w = "TrueAfterFalse" THEN w ELSE "False"

InitJob(docs, mappings) ==
    /\ pc = "form"
    /\ tmpl \in docs
    /\ rawMapping \in mappings
    /\ mapping = <<>>
    /\ doc = EmptyDoc
    /\ i = 0
    /\ exceptions = {}
    /\ proxies = 0
    /\ walkBase = 0
    /\ out = <<>>
    /\ pdf = "none"
    /\ enforceRuns = 0
    /\ once = EmptyDoc
    /\ boldWrites = "none"
    /\ rows = <<>>
    /\ row = 0
    /\ zip = <<>>
    /\ results = <<>>
    /\ variant = "mouapp"

NParas == Len(IterAllParagraphs(doc))

\* cfg = JobConfig(...); doc = Document(io.BytesIO(template_bytes)); the substitution pass
\* starts its walk
Submit ==
    /\ pc = "form"
    /\ mapping' = upcase_keys(rawMapping)
    /\ doc' = tmpl
    /\ exceptions' = {}
    /\ walkBase' = proxies
    /\ proxies' = proxies + Len(IterAllParagraphs(tmpl))
    /\ i' = 1
    /\ pc' = "replace"
    /\ UNCHANGED <<tmpl, rawMapping, out, pdf, enforceRuns, once, boldWrites, batchVars>>

\* replace_placeholders_and_collect_exceptions: one turn of "for p in _iter_all_paragraphs(doc)";
\* a re.error of sub() leaves the handler
ReplaceStep ==
    /\ pc = "replace"
    /\ i <= NParas
    /\ LET p == IterAllParagraphs(doc)[i]
           low == LowerStr(ParaText(p))
       IN  /\ exceptions' = IF IsMarked(low) THEN exceptions \cup {walkBase + i} ELSE exceptions
           /\ IF SubRaises(Normalized(mapping))
              THEN pc' = "error" /\ UNCHANGED <<doc, i>>
              ELSE /\ doc' = SetPara(doc, i, ReplaceInPara(p, mapping))
                   /\ i' = i + 1
                   /\ pc' = pc
    /\ UNCHANGED <<tmpl, rawMapping, mapping, proxies, walkBase, out, pdf, enforceRuns, once,
                   boldWrites, batchVars>>

\* return exceptions; enforce_calibri11_and_bold_with_exceptions: all_paras = list(walk),
\* a second walk, whose Paragraph objects are new ones
ReplaceReturn ==
    /\ pc = "replace"
    /\ i > NParas
    /\ walkBase' = proxies
    /\ proxies' = proxies + NParas
    /\ i' = 1
    /\ pc' = "bold"
    /\ boldWrites' = "none"
    /\ UNCHANGED <<tmpl, rawMapping, mapping, doc, exceptions, out, pdf, enforceRuns, once,
                   batchVars>>

\* 1) Calibri 11 + bold=True: one turn of "for p in all_paras"
BoldStep ==
    /\ pc = "bold"
    /\ i <= NParas
    /\ LET p == IterAllParagraphs(doc)[i]
       IN  doc' = SetPara(doc, i, [j \in 1..Len(p) |-> SetCalibri11Bold(p[j])])
    /\ i' = i + 1
    /\ boldWrites' = IF Len(IterAllParagraphs(doc)[i]) = 0 THEN boldWrites
                     ELSE WriteTrue(boldWrites)
    /\ UNCHANGED <<pc, tmpl, rawMapping, mapping, exceptions, proxies, walkBase, out, pdf,
                   enforceRuns, once, batchVars>>

BoldDone ==
    /\ pc = "bold"
    /\ i > NParas
    /\ i' = 1
    /\ pc' = "unbold"
    /\ UNCHANGED <<tmpl, rawMapping, mapping, doc, exceptions, proxies, walkBase, out, pdf,
                   enforceRuns, once, boldWrites, batchVars>>

\* 2) one turn of "for i, p in enumerate(all_paras)"
UnboldStep ==
    /\ pc = "unbold"
    /\ i <= NParas
    /\ doc' = UnboldAt(doc, i, walkBase, exceptions)
    /\ i' = i + 1
    /\ boldWrites' = IF UnboldCalled(doc, i, walkBase, exceptions) THEN WriteFalse(boldWrites)
                     ELSE boldWrites
    /\ UNCHANGED <<pc, tmpl, rawMapping, mapping, exceptions, proxies, walkBase, out, pdf,
                   enforceRuns, once, batchVars>>

\* enforce_calibri11_and_bold_with_exceptions returns
EnforceReturn ==
    /\ pc = "unbold"
    /\ i > NParas
    /\ enforceRuns' = enforceRuns + 1
    /\ once' = IF enforceRuns = 0 THEN doc ELSE once
    /\ pc' = "save"
    /\ UNCHANGED <<tmpl, rawMapping, mapping, doc, i, exceptions, proxies, walkBase, out, pdf,
                   boldWrites, batchVars>>

\* doc.save(out_buf); the DOCX download is offered
SaveDocx ==
    /\ pc = "save"
    /\ out' = Append(out, doc)
    /\ pc' = "pdf"
    /\ UNCHANGED <<tmpl, rawMapping, mapping, doc, i, exceptions, proxies, walkBase, pdf,
                   enforceRuns, once, boldWrites, batchVars>>

\* try: try_export_pdf(out_bytes) ... except Exception: st.info(...)
ExportPdf ==
    /\ pc = "pdf"
    /\ \E converted \in BOOLEAN : pdf' = IF converted THEN "pdf" ELSE "info"
    /\ pc' = "done"
    /\ UNCHANGED <<tmpl, rawMapping, mapping, doc, i, exceptions, proxies, walkBase, out,
                   enforceRuns, once, boldWrites, batchVars>>

\* a further call enforce_calibri11_and_bold_with_exceptions(doc, exceptions) on the same
\* document with the same set
EnforceAgain ==
    /\ pc = "save"
    /\ enforceRuns < MaxEnforceRuns
    /\ walkBase' = proxies
    /\ proxies' = proxies + NParas
    /\ i' = 1
    /\ pc' = "bold"
    /\ boldWrites' = "none"
    /\ UNCHANGED <<tmpl, rawMapping, mapping, doc, exceptions, out, pdf, enforceRuns, once,
                   batchVars>>

Next ==
    \/ Submit
    \/ ReplaceStep
    \/ ReplaceReturn
    \/ BoldStep
    \/ BoldDone
    \/ UnboldStep
    \/ EnforceReturn
    \/ SaveDocx
    \/ ExportPdf

InitSubst == InitJob(SubstDocs, DictsOver(SubstEntries))

InitFormat == InitJob(FormatDocs, FormatMappings)

InitNorm == InitJob(NormDocs, DictsOver(NormEntries))

SubstSpec == InitSubst /\ [][Next]_vars

FormatSpec == InitFormat /\ [][Next]_vars

NormSpec == InitNorm /\ [][Next]_vars

IdemSpec == InitFormat /\ [][Next \/ EnforceAgain]_vars

-----------------------------------------------------------------------------
(* The CSV batch: mouapp.py ("Modo CSV (lote)") and app.py ("Modo CSV (lote)"). *)

\* placeholders_found = sorted(list(extract_placeholders(doc_template)))
placeholders_found == Sorted(extract_placeholders(tmpl))

\* mouapp.py: mapping = {k: str(row.get(k, "")) for k in placeholders_found}
RowMapping(r) ==
    [j \in 1..Len(placeholders_found) |->
        [k |-> placeholders_found[j], v |-> DictGet(r, placeholders_found[j], <<>>)]]

\* app.py DocRunConfig.normalize_keys
RECURSIVE NormalizeLoop(_, _)
NormalizeLoop(v, fixed) ==
    IF v = <<>> THEN fixed
    ELSE LET key0 == Strip(Head(v).k)
             key1 == IF Len(key0) >= 2 /\ SubSeq(key0, 1, 2) = <<"{", "{">>
                     THEN key0 ELSE <<"{", "{">> \o key0
             key2 == IF Len(key1) >= 2 /\ SubSeq(key1, Len(key1) - 1, Len(key1)) = <<"}", "}">>
                     THEN key1 ELSE key1 \o <<"}", "}">>
         IN  NormalizeLoop(Tail(v), DictSet(fixed, key2, Head(v).v))

normalize_keys(v) == NormalizeLoop(v, <<>>)

\* one CSV row: the columns it has a value for
BatchRows == {
    <<[k |-> KEY_A, v |-> V_B]>>,
    <<[k |-> KEY_A, v |-> V_BAD_ESCAPE], [k |-> KEY_COMMENTS, v |-> V_PENDING_REVIEW]>>,
    <<[k |-> KEY_COMMENTS, v |-> V_NA]>>}

BatchDocs == {
    [EmptyDoc EXCEPT !.body = <<<<Run(T_TOK_A_LOW, "None", "None", 0)>>>>],
    [EmptyDoc EXCEPT !.body = <<<<Run(P_TOK_COMMENTS, "True", "Arial", 12)>>>>,
                     !.tables = <<<<Run(T_OPEN, "None", "None", 0), Run(KEY_A, "True", "None", 0),
                                    Run(T_CLOSE, "None", "None", 0)>>>>]}

InitBatch ==
    /\ pc = "row"
    /\ tmpl \in BatchDocs
    /\ rows \in UNION {[1..n -> BatchRows] : n \in 1..MaxRows}
    /\ variant \in {"mouapp", "app"}
    /\ row = 1
    /\ zip = <<>>
    /\ results = <<>>
    /\ rawMapping = <<>>
    /\ mapping = <<>>
    /\ doc = EmptyDoc
    /\ i = 0
    /\ exceptions = {}
    /\ proxies = 0
    /\ walkBase = 0
    /\ out = <<>>
    /\ pdf = "none"
    /\ enforceRuns = 0
    /\ once = EmptyDoc
    /\ boldWrites = "none"

\* mouapp.py: "for _, row in df.iterrows()": the mapping, a fresh Document, and the
\* substitution pass starts its walk; no try encloses the passes or doc.save
RowBegin ==
    /\ pc = "row"
    /\ variant = "mouapp"
    /\ row <= Len(rows)
    /\ mapping' = RowMapping(rows[row])
    /\ doc' = tmpl
    /\ exceptions' = {}
    /\ walkBase' = proxies
    /\ proxies' = proxies + Len(IterAllParagraphs(tmpl))
    /\ i' = 1
    /\ enforceRuns' = 0
    /\ pc' = "replace"
    /\ UNCHANGED <<tmpl, rawMapping, out, pdf, once, boldWrites, rows, row, zip, results,
                   variant>>

\* mouapp.py: doc.save(buf); zf.writestr(docx); try: zf.writestr(pdf) except Exception: pass
RowSave ==
    /\ pc = "save"
    /\ \E converted \in BOOLEAN :
          zip' = zip \o <<[row |-> row, kind |-> "docx"]>>
                     \o (IF converted THEN <<[row |-> row, kind |-> "pdf"]>> ELSE <<>>)
    /\ row' = row + 1
    /\ pc' = "row"
    /\ UNCHANGED <<tmpl, rawMapping, mapping, doc, i, exceptions, proxies, walkBase, out, pdf,
                   enforceRuns, once, boldWrites, rows, results, variant>>

\* app.py: one turn of "for _, row in df.iterrows()": the Google Docs/Drive calls either all
\* return or one raises, which the row's try catches
AppRow ==
    /\ pc = "row"
    /\ variant = "app"
    /\ row <= Len(rows)
    /\ mapping' = normalize_keys(rows[row])
    /\ \E raised \in BOOLEAN :
          IF raised
          THEN /\ results' = Append(results, [row |-> row, status |-> "ERRO"])
               /\ zip' = zip
          ELSE /\ results' = Append(results, [row |-> row, status |-> "OK"])
               /\ zip' = zip \o <<[row |-> row, kind |-> "pdf"], [row |-> row, kind |-> "docx"]>>
    /\ row' = row + 1
    /\ UNCHANGED <<pc, tmpl, rawMapping, doc, i, exceptions, proxies, walkBase, out, pdf,
                   enforceRuns, once, boldWrites, rows, variant>>

\* the loop is over: st.success, the ZIP download is offered
BatchEnd ==
    /\ pc = "row"
    /\ row > Len(rows)
    /\ pc' = "done"
    /\ UNCHANGED <<tmpl, rawMapping, mapping, doc, i, exceptions, proxies, walkBase, out, pdf,
                   enforceRuns, once, boldWrites, batchVars>>

BatchNext ==
    \/ RowBegin
    \/ ReplaceStep
    \/ ReplaceReturn
    \/ BoldStep
    \/ BoldDone
    \/ UnboldStep
    \/ EnforceReturn
    \/ RowSave
    \/ AppRow
    \/ BatchEnd

BatchSpec == InitBatch /\ [][BatchNext]_vars

-----------------------------------------------------------------------------
(* Properties. *)

\* generate has returned: both passes have run over the job's document
Generated == pc \in {"save", "pdf", "done"}

Token(key) == <<"{", "{">> \o key \o <<"}", "}">>

\* text holds the token {{key}} in some letter case
HasToken(text, key) == Contains(LowerStr(text), LowerStr(Token(key)))

\* the effective text of the paragraph at position j of the walk of d
EffectiveText(d, j) == JoinRuns(IterAllParagraphs(d)[j])

NoMappedTokenLeft ==
    \A j \in 1..NParas : \A k \in DictKeys(mapping) : ~HasToken(EffectiveText(doc, j), k)

\* no value holds a brace or a backslash
PlainValues(m) == \A j \in 1..Len(m) : \A c \in 1..Len(m[j].v) : m[j].v[c] \notin {"{", "}", "\\"}

\* position c of t lies inside a token {{KEY}}, KEY of one or more of [A-Za-z0-9_]
InsideToken(t, c) ==
    \E a \in 1..c : \E b \in c..Len(t) :
        /\ b >= a + 4
        /\ t[a] = "{" /\ t[a + 1] = "{" /\ t[b - 1] = "}" /\ t[b] = "}"
        /\ \A x \in (a + 2)..(b - 2) : IsKeyChar(t[x])

\* every brace of the template's paragraphs belongs to a token {{KEY}}
BracesOnlyInTokens(d) ==
    \A j \in 1..Len(IterAllParagraphs(d)) :
        LET t == ParaText(IterAllParagraphs(d)[j])
        IN  \A c \in 1..Len(t) : t[c] \in {"{", "}"} => InsideToken(t, c)

\* C1 as stated: for every document and every mapping, whatever its values, after generate
\* no walked paragraph's effective text holds {{KEY}}, in any letter case, for a key of the
\* mapping.
C1_NoMappedTokenLeft == Generated => NoMappedTokenLeft

\* C1 amended: when no value of the mapping holds a brace or a backslash and every brace of
\* the template belongs to a {{KEY}} token, after generate no walked paragraph's effective
\* text holds {{KEY}}, in any letter case, for a key of the mapping.
C1_NoMappedTokenLeftPlain ==
    (Generated /\ PlainValues(mapping) /\ BracesOnlyInTokens(tmpl)) => NoMappedTokenLeft

\* C1 witness: a template token written in lower case, its key mapped to a plain value, has
\* been replaced
C1_Witness ==
    /\ Generated
    /\ PlainValues(mapping)
    /\ BracesOnlyInTokens(tmpl)
    /\ \E j \in 1..NParas : \E k \in DictKeys(mapping) :
          /\ Contains(EffectiveText(tmpl, j), LowerStr(Token(k)))
          /\ IterAllParagraphs(doc)[j] # IterAllParagraphs(tmpl)[j]

\* the tokens {{KEY}} of t as written, with their keys upper-cased
TokensOf(t) ==
    {[text |-> SubSeq(t, ab[1], ab[2]), key |-> UpperStr(SubSeq(t, ab[1] + 2, ab[2] - 2))] :
        ab \in {ab \in (1..Len(t)) \X (1..Len(t)) :
            /\ ab[2] >= ab[1] + 4
            /\ t[ab[1]] = "{" /\ t[ab[1] + 1] = "{" /\ t[ab[2] - 1] = "}" /\ t[ab[2]] = "}"
            /\ \A x \in (ab[1] + 2)..(ab[2] - 2) : IsKeyChar(t[x])}}

\* number of places of t where s stands, character for character
Occurrences(s, t) == Cardinality({c \in 1..Len(t) : c + Len(s) - 1 <= Len(t) /\ SubSeq(t, c, c + Len(s) - 1) = s})

\* C2: every {{KEY}} token of the template whose key is not in the mapping stands in the
\* output paragraph character for character, as often as in the template at least, also
\* when other tokens of the paragraph were replaced.
C2_UnmappedTokensVerbatim ==
    Generated =>
        \A j \in 1..NParas : \A tok \in TokensOf(EffectiveText(tmpl, j)) :
            tok.key \notin DictKeys(mapping) =>
                Occurrences(tok.text, EffectiveText(doc, j))
                    >= Occurrences(tok.text, EffectiveText(tmpl, j))

\* C2 witness: a paragraph with a replaced token and a token whose key is not mapped has
\* been rewritten
C2_Witness ==
    /\ Generated
    /\ \E j \in 1..NParas :
          /\ IterAllParagraphs(doc)[j] # IterAllParagraphs(tmpl)[j]
          /\ \E tok \in TokensOf(EffectiveText(tmpl, j)) : tok.key \notin DictKeys(mapping)
          /\ \E tok \in TokensOf(EffectiveText(tmpl, j)) : tok.key \in DictKeys(mapping)

\* the paragraph at position j of the walk of d
Para(d, j) == IterAllParagraphs(d)[j]

NonBold(p) == \A r \in 1..Len(p) : p[r].bold = "False"

AllBold(p) == \A r \in 1..Len(p) : p[r].bold = "True"

Calibri11(p) == \A r \in 1..Len(p) : p[r].font = "Calibri" /\ p[r].size = 11

\* the template paragraph at position j held {{BP_DATE}} or {{COMMENTS}}, in any case
MarkedInTemplate(j) == IsMarked(LowerStr(ParaText(Para(tmpl, j))))

\* C3: every paragraph whose text before substitution holds the {{BP_DATE}} or the
\* {{COMMENTS}} token, in any case, has every run non-bold (and Calibri 11) after
\* generate, whatever the mapping substitutes: the paragraph the substitution pass put in
\* the Exception Set is recognised by the formatting pass.
C3_MarkedParagraphsNonBold ==
    Generated =>
        \A j \in 1..NParas :
            MarkedInTemplate(j) => NonBold(Para(doc, j)) /\ Calibri11(Para(doc, j))

\* the text the phrase rules and the "2." test of the second loop accept
PhraseOrTwo(low) == IsExceptionPhrase(low) \/ low \in {TWO_DOT, TWO}

\* C4 as stated: the phrase rules are evaluated on the text before substitution, so for a
\* paragraph without a marked token the outcome (non-bold or bold) is a function of the
\* template alone, the same for every mapping.
C4_PhraseRulesOnTemplateText ==
    Generated =>
        \A j \in 1..NParas :
            (~MarkedInTemplate(j) /\ Para(doc, j) # <<>>) =>
                (NonBold(Para(doc, j)) <=> PhraseOrTwo(LowerStr(ParaText(Para(tmpl, j)))))

\* C4 amended: the phrase rules are evaluated on the text after substitution: a paragraph
\* without a marked token ends non-bold when its substituted text matches a phrase rule or
\* is just "2." or "2", and bold otherwise.
C4_PhraseRulesOnSubstitutedText ==
    Generated =>
        \A j \in 1..NParas :
            (~MarkedInTemplate(j) /\ Para(doc, j) # <<>>) =>
                IF PhraseOrTwo(LowerStr(ParaText(Para(doc, j))))
                THEN NonBold(Para(doc, j))
                ELSE AllBold(Para(doc, j))

\* C4 witness: a value has turned a paragraph of plain template text into an exception
\* paragraph
C4_Witness ==
    /\ Generated
    /\ \E j \in 1..NParas :
          /\ ~MarkedInTemplate(j)
          /\ ~PhraseOrTwo(LowerStr(ParaText(Para(tmpl, j))))
          /\ PhraseOrTwo(LowerStr(ParaText(Para(doc, j))))
          /\ Para(doc, j) # <<>>
          /\ NonBold(Para(doc, j))

\* C5: "2." followed by "Especificações e alterações acordadas:" ends with both paragraphs
\* non-bold; the one paragraph "2. Especificações e alterações acordadas:" ends non-bold;
\* "2. Prazos" ends bold.
C5_SplitHeading ==
    Generated =>
        \A j \in 1..NParas :
            /\ (/\ ParaText(Para(doc, j)) = TWO_DOT
                /\ j < NParas
                /\ ParaText(Para(doc, j + 1)) = P_HEADING)
                    => NonBold(Para(doc, j)) /\ NonBold(Para(doc, j + 1))
            /\ ParaText(Para(doc, j)) = P_TWO_HEADING => NonBold(Para(doc, j))
            /\ ParaText(Para(doc, j)) = P_TWO_PRAZOS => AllBold(Para(doc, j))

\* C5 witness: the heading split over two paragraphs has been formatted
C5_Witness ==
    /\ Generated
    /\ NParas = 2
    /\ ParaText(Para(doc, 1)) = TWO_DOT
    /\ ParaText(Para(doc, 2)) = P_HEADING
    /\ NonBold(Para(doc, 1))

\* "n/a" with optional spaces around the slash and an optional period at the end
NaForms ==
    {<<"n">> \o s1 \o <<"/">> \o s2 \o <<"a">> \o dot :
        s1 \in {<<>>, <<" ">>}, s2 \in {<<>>, <<" ">>}, dot \in {<<>>, <<".">>}}

\* C6: a paragraph whose whole normalized text is "n/a" in any case, with optional spaces
\* around the slash and an optional period at the end, ends non-bold; "Not applicable"
\* ends bold.
C6_NaRule ==
    Generated =>
        \A j \in 1..NParas :
            /\ LowerStr(ParaText(Para(doc, j))) \in NaForms => NonBold(Para(doc, j))
            /\ ParaText(Para(doc, j)) = P_NOT_APPLICABLE => AllBold(Para(doc, j))

\* C6 witness: "n/a." and "Not applicable" have been formatted in one document
C6_Witness ==
    /\ Generated
    /\ NParas = 2
    /\ ParaText(Para(doc, 1)) = P_NA_DOT
    /\ ParaText(Para(doc, 2)) = P_NOT_APPLICABLE
    /\ AllBold(Para(doc, 2))

\* row r of the CSV has its .docx in the archive
RowWritten(r) == \E e \in 1..Len(zip) : zip[e].row = r /\ zip[e].kind = "docx"

\* row r of the CSV has a failure status on record
RowFailed(r) == \E e \in 1..Len(results) : results[e].row = r /\ results[e].status = "ERRO"

\* the handler of the batch has ended: the loop ran out of rows, or an exception left it
BatchOver == pc \in {"done", "error"}

\* C7: in batch mode an exception raised while one row is processed (substitution,
\* formatting or export) is caught at that row and recorded as that row's failure status,
\* and the later rows are still processed: when the batch is over, every row of the CSV
\* is either written to the archive or on record as failed.
C7_FailingRowContained ==
    BatchOver => \A r \in 1..Len(rows) : RowWritten(r) \/ RowFailed(r)

\* a key of the dict handed to JobConfig is empty once normalised
EmptyKeyGiven == \E j \in 1..Len(rawMapping) : NormKey(rawMapping[j].k) = <<>>

\* C8: when a key is empty after normalization the Normalizer fails with a validation
\* error before any substitution, and the job produces no document.
C8_EmptyKeyRejected == EmptyKeyGiven => (pc \in {"form", "error"} /\ out = <<>>)

\* bold, font and size of every run of d
FormatOf(d) ==
    [j \in 1..Len(IterAllParagraphs(d)) |->
        [r \in 1..Len(Para(d, j)) |->
            <<Para(d, j)[r].bold, Para(d, j)[r].font, Para(d, j)[r].size>>]]

\* C9: the formatting pass run again on the document with the same Exception Set leaves
\* every run with the bold, font and size the first run left it.
C9_EnforceIdempotent == (pc = "save" /\ enforceRuns >= 2) => FormatOf(doc) = FormatOf(once)

\* C9 witness: the pass has run twice over a document with a bold and a non-bold paragraph
C9_Witness ==
    /\ pc = "save"
    /\ enforceRuns = 2
    /\ \E j \in 1..NParas : Para(doc, j) # <<>> /\ NonBold(Para(doc, j))
    /\ \E j \in 1..NParas : Para(doc, j) # <<>> /\ AllBold(Para(doc, j))

\* the four spellings of the key GROUP_NAME
GroupNameForms == {RK_ONE_BRACE, RK_LOWER, RK_SPACED, RK_TWO_BRACES}

\* a canonical key: upper-case, not empty, no brace or whitespace at either end
IsCanonicalKey(k) ==
    /\ k # <<>>
    /\ k = UpperStr(k)
    /\ Head(k) \notin SpaceChars \cup {"{", "}"}
    /\ k[Len(k)] \notin SpaceChars \cup {"{", "}"}

AllCanonical(m) == \A j \in 1..Len(m) : IsCanonicalKey(m[j].k)

\* C10: the Normalizer maps "{GROUP_NAME}", "group_name", " GROUP_NAME " and
\* "{{GROUP_NAME}}" to the key GROUP_NAME (the last value given wins), and normalizing a
\* mapping whose keys are canonical returns the same mapping.
C10_NormalizerCanonical ==
    pc # "form" =>
        /\ (rawMapping # <<>> /\ \A j \in 1..Len(rawMapping) : rawMapping[j].k \in GroupNameForms)
              => mapping = <<[k |-> KEY_GROUP_NAME, v |-> rawMapping[Len(rawMapping)].v]>>
        /\ AllCanonical(rawMapping) => mapping = rawMapping
        /\ AllCanonical(mapping) => upcase_keys(mapping) = mapping

\* C10 witness: two spellings of GROUP_NAME given in one dict have become one canonical key
C10_Witness ==
    /\ pc # "form"
    /\ Len(rawMapping) = 2
    /\ rawMapping[1].k = RK_LOWER
    /\ rawMapping[2].k = RK_TWO_BRACES
    /\ mapping = <<[k |-> KEY_GROUP_NAME, v |-> rawMapping[2].v]>>

-----------------------------------------------------------------------------
(* The rewrite of a paragraph as a single run. *)

\* the texts of the runs of a paragraph, in order
RunTexts(p) == [r \in 1..Len(p) |-> p[r].text]

\* the loop of the substitution pass has gone past paragraph j of the walk
Processed(j) == (pc = "replace" /\ j < i) \/ pc \in {"bold", "unbold", "save", "pdf", "done"}

\* paragraph j has been rewritten: its runs no longer carry the texts of the template's runs
\* (no later pass writes a run's text)
Rewritten(j) == Processed(j) /\ RunTexts(Para(doc, j)) # RunTexts(Para(tmpl, j))

\* the original effective text of paragraph j with the mapped tokens replaced, in the
\* mapping's order, as sub() replaces them
SubstitutedFrom(j) == ReplaceLoop(Normalized(mapping), EffectiveText(tmpl, j))

\* C11: a paragraph the Substitution Engine has rewritten consists of one run, and that
\* run's text is the paragraph's original effective text (the concatenation of its runs'
\* texts) with the mapped tokens replaced by their values, every other character, whitespace
\* included, kept as it was.
C11_RewriteKeepsEveryCharacter ==
    \A j \in 1..Len(IterAllParagraphs(doc)) :
        Rewritten(j) =>
            /\ Len(Para(doc, j)) = 1
            /\ EffectiveText(doc, j) = SubstitutedFrom(j)

-----------------------------------------------------------------------------
(* The order of the two passes of the Formatting Enforcer. *)

\* all runs of the paragraph carry the same bold value
UniformBold(p) == \A r1, r2 \in 1..Len(p) : p[r1].bold = p[r2].bold

\* the running or the last call of the Formatting Enforcer has returned
EnforceReturned == pc \in {"save", "pdf", "done"} /\ enforceRuns >= 1

\* C12: within one call of the Formatting Enforcer no run's bold flag is set to true after a
\* run's bold flag has been set to false, and when the call has returned the runs of each
\* paragraph all carry the same bold value.
C12_BoldPassBeforeUnbold ==
    /\ boldWrites # "TrueAfterFalse"
    /\ EnforceReturned => \A j \in 1..Len(IterAllParagraphs(doc)) : UniformBold(Para(doc, j))

\* a second call has returned on a document the first call left with a non-bold paragraph: the
\* call wrote true and then false, a paragraph of two runs with different bold values in
\* the template is non-bold and another paragraph is bold
C12_Witness ==
    /\ pc = "save"
    /\ enforceRuns = 2
    /\ boldWrites = "False"
    /\ \E j, k \in 1..Len(IterAllParagraphs(doc)) :
          /\ Len(Para(doc, j)) = 2
          /\ ~UniformBold(Para(tmpl, j))
          /\ NonBold(Para(doc, j))
          /\ NonBold(Para(once, j))
          /\ Len(Para(doc, k)) > 0
          /\ AllBold(Para(doc, k))

====
